---------------------------- MODULE Spec2Model ----------------------------
(***************************************************************************)
(* A model of the personal-finance statement importer (package pf):        *)
(*   pf/classify.py         classify_statement, extract_institution_and_   *)
(*                          account, infer_statement_period, _parse_date   *)
(*   pf/parsers/generic.py  _parse_amount, extract_transactions_from_text, *)
(*                          categorize_transaction                         *)
(*   pf/db.py               Database (the sqlite tables and their calls)   *)
(*   pf/cli.py              import_cmd (the batch loop)                    *)
(*   pf/util.py             find_pdfs_in_dir                               *)
(*                                                                         *)
(* Text is modelled at character level: a Python str is a sequence of      *)
(* one-character strings ("ndash" stands for U+2013).  Amounts are integer *)
(* cents.  Dates are records [y, m, d].                                    *)
(***************************************************************************)
EXTENDS Integers, Sequences, FiniteSets, TLC

VARIABLES
  accounts,      \* table accounts:     sequence of rows, id = index
  statements,    \* table statements:   sequence of rows, id = index
  transactions,  \* table transactions: sequence of rows, id = index
  categories,    \* table categories:   sequence of rows, id = index
  fs,            \* the file system: location -> file bytes or NoFile
  pc,            \* position in import_cmd: "idle", "loop", "done"
  pdf_paths,     \* import_cmd's pdf_paths (sorted list of locations)
  idx,           \* number of entries of pdf_paths already iterated
  imported,      \* import_cmd's counter imported
  skipped,       \* import_cmd's counter skipped
  today,         \* what dt.date.today() returns
  ev,            \* history: what the last loop iteration did
  runs,          \* number of import_cmd runs started
  drops,         \* number of files the user has put into the input folder
  arg,           \* the argument of the pure function under check
  ret            \* its result

vars == << accounts, statements, transactions, categories, fs, pc,
           pdf_paths, idx, imported, skipped, today, ev, runs, drops, arg, ret >>

\* Python's Optional: None, or a value x as Some(x) with Val(Some(x)) = x
None == << >>
Some(x) == << x >>
Val(o) == o[1]

-----------------------------------------------------------------------------
(* Python str and re primitives                                            *)

Upper == << "A","B","C","D","E","F","G","H","I","J","K","L","M",
            "N","O","P","Q","R","S","T","U","V","W","X","Y","Z" >>
Lower == << "a","b","c","d","e","f","g","h","i","j","k","l","m",
            "n","o","p","q","r","s","t","u","v","w","x","y","z" >>
Digits == << "0","1","2","3","4","5","6","7","8","9" >>

Range(s) == { s[i] : i \in DOMAIN s }

IsAlpha(c) == c \in Range(Upper) \cup Range(Lower)
IsDigit(c) == c \in Range(Digits)
\* \s of re (the ASCII whitespace the texts use)
IsSpace(c) == c \in { " ", "\n", "\t" }
DigitVal(c) == (CHOOSE i \in DOMAIN Digits : Digits[i] = c) - 1

LowerChar(c) ==
  IF c \in Range(Upper) THEN Lower[CHOOSE i \in DOMAIN Upper : Upper[i] = c] ELSE c

\* str.lower()
lower(s) == [ i \in DOMAIN s |-> LowerChar(s[i]) ]

\* str.title(): a letter is upper-cased after a non-letter, lower-cased otherwise
title(s) ==
  [ i \in DOMAIN s |->
      IF i > 1 /\ IsAlpha(s[i - 1]) THEN LowerChar(s[i])
      ELSE IF s[i] \in Range(Lower) THEN Upper[CHOOSE k \in DOMAIN Lower : Lower[k] = s[i]]
      ELSE s[i] ]

\* sub in s
Contains(s, sub) ==
  \E i \in 1 .. (Len(s) - Len(sub) + 1) : SubSeq(s, i, i + Len(sub) - 1) = sub

\* s.endswith(suffix)
endswith(s, suffix) ==
  Len(s) >= Len(suffix) /\ SubSeq(s, Len(s) - Len(suffix) + 1, Len(s)) = suffix

\* str.strip()
strip(s) ==
  IF \A i \in DOMAIN s : IsSpace(s[i]) THEN << >>
  ELSE LET a == CHOOSE i \in DOMAIN s :
                  ~IsSpace(s[i]) /\ \A j \in 1 .. (i - 1) : IsSpace(s[j])
           b == CHOOSE i \in DOMAIN s :
                  ~IsSpace(s[i]) /\ \A j \in (i + 1) .. Len(s) : IsSpace(s[j])
       IN  SubSeq(s, a, b)

\* int(s) of a string of digits
RECURSIVE int(_)
int(s) == IF s = << >> THEN 0
          ELSE 10 * int(SubSeq(s, 1, Len(s) - 1)) + DigitVal(s[Len(s)])

\* the number of leading characters of s, from position i on, that are digits
RECURSIVE DigitRun(_, _)
DigitRun(s, i) == IF i <= Len(s) /\ IsDigit(s[i]) THEN 1 + DigitRun(s, i + 1) ELSE 0

RECURSIVE SpaceRun(_, _)
SpaceRun(s, i) == IF i <= Len(s) /\ IsSpace(s[i]) THEN 1 + SpaceRun(s, i + 1) ELSE 0

Max(a, b) == IF a >= b THEN a ELSE b

-----------------------------------------------------------------------------
(* pf/classify.py: classify_statement                                      *)

StatementTypes == << "mortgage", "credit_card", "brokerage", "bank" >>

\* mortgage_cues, cc_cues, brkg_cues, bank_cues
CuesOf(type) ==
  CASE type = "mortgage" ->
         << <<"e","s","c","r","o","w">>,
            <<"p","r","i","n","c","i","p","a","l">>,
            <<"i","n","t","e","r","e","s","t">>,
            <<"m","o","r","t","g","a","g","e">>,
            <<"l","o","a","n"," ","n","u","m","b","e","r">> >>
    [] type = "credit_card" ->
         << <<"m","i","n","i","m","u","m"," ","p","a","y","m","e","n","t">>,
            <<"p","a","y","m","e","n","t"," ","d","u","e"," ","d","a","t","e">>,
            <<"n","e","w"," ","b","a","l","a","n","c","e">>,
            <<"c","r","e","d","i","t"," ","c","a","r","d">> >>
    [] type = "brokerage" ->
         << <<"p","o","s","i","t","i","o","n","s">>,
            <<"d","i","v","i","d","e","n","d","s">>,
            <<"t","r","a","d","e"," ","d","a","t","e">>,
            <<"g","a","i","n">>,
            <<"b","r","o","k","e","r","a","g","e">> >>
    [] type = "bank" ->
         << <<"c","h","e","c","k","i","n","g">>,
            <<"s","a","v","i","n","g","s">>,
            <<"w","i","t","h","d","r","a","w","a","l">>,
            <<"d","e","p","o","s","i","t">>,
            <<"a","c","c","o","u","n","t"," ","s","u","m","m","a","r","y">> >>

\* for cue in cues: scores[type] += 1 if cue in t else 0
RECURSIVE CueHits(_, _)
CueHits(t, cues) ==
  IF cues = << >> THEN 0
  ELSE (IF Contains(t, Head(cues)) THEN 1 ELSE 0) + CueHits(t, Tail(cues))

\* max taking the last of the keys that share the greatest value
RECURSIVE LastMaxKey(_, _, _)
LastMaxKey(scores, keys, best) ==
  IF keys = << >> THEN best
  ELSE LastMaxKey(scores, Tail(keys),
                  IF scores[Head(keys)] >= scores[best] THEN Head(keys) ELSE best)

\* max(scores, key=scores.get) over the dict's insertion order: the first key
\* whose value no later key exceeds
RECURSIVE MaxKey(_, _, _)
MaxKey(scores, keys, best) ==
  IF keys = << >> THEN best
  ELSE MaxKey(scores, Tail(keys),
              IF scores[Head(keys)] > scores[best] THEN Head(keys) ELSE best)

RECURSIVE SumOver(_, _)
SumOver(scores, keys) ==
  IF keys = << >> THEN 0 ELSE scores[Head(keys)] + SumOver(scores, Tail(keys))

RECURSIVE MaxOver(_, _)
MaxOver(scores, keys) ==
  IF Len(keys) = 1 THEN scores[Head(keys)]
  ELSE Max(scores[Head(keys)], MaxOver(scores, Tail(keys)))

\* A classifier whose confidence is the share of the best type in the total
ClassifyByShare(text) ==
  LET scores    == [ ty \in Range(StatementTypes) |-> CueHits(lower(text), CuesOf(ty)) ]
      best_type == MaxKey(scores, Tail(StatementTypes), Head(StatementTypes))
  IN  [ type |-> best_type, num |-> scores[best_type],
        den  |-> Max(1, SumOver(scores, StatementTypes)) ]

\* Returns [type, num, den]: the confidence is the float num / den.
classify_statement(text) ==
  LET scores    == [ ty \in Range(StatementTypes) |-> CueHits(lower(text), CuesOf(ty)) ]
      best_type == MaxKey(scores, Tail(StatementTypes), Head(StatementTypes))
      total     == SumOver(scores, StatementTypes)
  IN  IF total = 0
      THEN [ type |-> best_type, num |-> 0, den |-> 1 ]
      ELSE [ type |-> best_type, num |-> scores[best_type],
             den  |-> Max(1, MaxOver(scores, StatementTypes)) ]

-----------------------------------------------------------------------------
(* datetime.date                                                           *)

Date(y, m, d) == [ y |-> y, m |-> m, d |-> d ]

\* datetime._DAYS_IN_MONTH and _days_in_month
DaysInMonth(y, m) ==
  IF m = 2 THEN (IF y % 4 = 0 /\ (y % 100 # 0 \/ y % 400 = 0) THEN 29 ELSE 28)
  ELSE IF m \in {4, 6, 9, 11} THEN 30 ELSE 31

\* dt.date(y, m, d) raises ValueError unless this holds (MINYEAR 1, MAXYEAR 9999)
ValidDate(y, m, d) ==
  /\ y \in 1 .. 9999
  /\ m \in 1 .. 12
  /\ d >= 1 /\ d <= DaysInMonth(y, m)

\* d1 <= d2 on dates
DateLE(d1, d2) ==
  \/ d1.y < d2.y
  \/ d1.y = d2.y /\ d1.m < d2.m
  \/ d1.y = d2.y /\ d1.m = d2.m /\ d1.d <= d2.d

\* max(dates) of a non-empty list
RECURSIVE MaxDate(_)
MaxDate(dates) ==
  IF Len(dates) = 1 THEN Head(dates)
  ELSE LET r == MaxDate(Tail(dates))
       IN  IF DateLE(r, Head(dates)) THEN Head(dates) ELSE r

\* datetime._days_before_month
RECURSIVE DaysBeforeMonth(_, _)
DaysBeforeMonth(y, m) ==
  IF m = 1 THEN 0 ELSE DaysBeforeMonth(y, m - 1) + DaysInMonth(y, m - 1)

\* datetime._ymd2ord, with _days_before_year
toordinal(dt) ==
  LET p == dt.y - 1
  IN  p * 365 + (p \div 4) - (p \div 100) + (p \div 400) + DaysBeforeMonth(dt.y, dt.m) + dt.d

\* datetime._ord2ymd
fromordinal(n0) ==
  LET DI400Y == 146097
      DI100Y == 36524
      DI4Y   == 1461
      n      == n0 - 1
      n400   == n \div DI400Y
      r400   == n % DI400Y
      n100   == r400 \div DI100Y
      r100   == r400 % DI100Y
      n4     == r100 \div DI4Y
      r4     == r100 % DI4Y
      n1     == r4 \div 365
      r1     == r4 % 365
      year   == n400 * 400 + 1 + n100 * 100 + n4 * 4 + n1
  IN  IF n1 = 4 \/ n100 = 4 THEN Date(year - 1, 12, 31)
      ELSE LET month == CHOOSE m \in 1 .. 12 :
                          /\ DaysBeforeMonth(year, m) <= r1
                          /\ r1 < DaysBeforeMonth(year, m) + DaysInMonth(year, m)
           IN  Date(year, month, r1 - DaysBeforeMonth(year, month) + 1)

-----------------------------------------------------------------------------
(* pf/classify.py: _DATE_RE, _RANGE_RE, _parse_date, infer_statement_period *)

IsDateSep(c) == c \in { "-", "/" }

AllDigits(s, i, n) == \A k \in i .. (i + n - 1) : k <= Len(s) /\ IsDigit(s[k])
IsSepAt(s, i) == i <= Len(s) /\ IsDateSep(s[i])

\* The ways \d{1,2}[\-/]\d{1,2}[\-/]\d{2,4} matches s at position i: the digit
\* counts <<a, b, c>> of its three numbers.
DateShapes(s, i) ==
  { sh \in (1 .. 2) \X (1 .. 2) \X (2 .. 4) :
      /\ AllDigits(s, i, sh[1])
      /\ IsSepAt(s, i + sh[1])
      /\ AllDigits(s, i + sh[1] + 1, sh[2])
      /\ IsSepAt(s, i + sh[1] + 1 + sh[2])
      /\ AllDigits(s, i + sh[1] + sh[2] + 2, sh[3]) }

ShapeLen(sh) == sh[1] + sh[2] + sh[3] + 2

\* The regex engine tries the greedy quantifiers longest first and backtracks
\* from the last one: the shape of shapes it tries before the others.
FirstTried(shapes) ==
  CHOOSE sh \in shapes :
    \A o \in shapes :
      \/ o = sh
      \/ sh[1] > o[1]
      \/ sh[1] = o[1] /\ sh[2] > o[2]
      \/ sh[1] = o[1] /\ sh[2] = o[2] /\ sh[3] > o[3]

\* [–\-to]+ under re.IGNORECASE: the number of such characters from position i on
RECURSIVE ConnRun(_, _)
ConnRun(s, i) ==
  IF i <= Len(s) /\ s[i] \in { "ndash", "-", "t", "o", "T", "O" }
  THEN 1 + ConnRun(s, i + 1) ELSE 0

\* \s*[–\-to]+\s* from position i: the position after it, or 0 when it does
\* not match (the three classes and the digit that must follow are disjoint, so
\* the split is unique)
AfterConnector(s, i) ==
  LET p == i + SpaceRun(s, i)
      n == ConnRun(s, p)
      q == p + n
  IN  IF n = 0 THEN 0 ELSE q + SpaceRun(s, q)

\* The first-date shapes at i after which connector and second date match
RangeShapes(s, i) ==
  { sh \in DateShapes(s, i) :
      LET q == AfterConnector(s, i + ShapeLen(sh))
      IN  q # 0 /\ DateShapes(s, q) # {} }

\* a if it is a value, else b
FirstSome(a, b) == IF a # None THEN a ELSE b

\* _RANGE_RE matched at position i, shapes being RangeShapes(s, i): None, or
\* Some([g1, g2]) with m.group(1), m.group(2)
RangeMatchAt(s, i, shapes) ==
  IF shapes = {} THEN None
  ELSE Some([ g1 |-> SubSeq(s, i, i + ShapeLen(FirstTried(shapes)) - 1),
              g2 |-> LET q == AfterConnector(s, i + ShapeLen(FirstTried(shapes)))
                     IN  SubSeq(s, q, q + ShapeLen(FirstTried(DateShapes(s, q))) - 1) ])

RECURSIVE RangeSearchFrom(_, _)
RangeSearchFrom(s, i) ==
  IF i > Len(s) THEN None
  ELSE FirstSome(RangeMatchAt(s, i, RangeShapes(s, i)), RangeSearchFrom(s, i + 1))

\* _RANGE_RE.search(text): None, or Some([g1, g2]) with m.group(1), m.group(2)
RangeSearch(s) == RangeSearchFrom(s, 1)

\* \b at the gap before position i (1 .. Len(s) + 1)
WordBoundary(s, i) ==
  LET IsWord(c) == IsAlpha(c) \/ IsDigit(c) \/ c = "_"
      before    == i > 1 /\ IsWord(s[i - 1])
      after     == i <= Len(s) /\ IsWord(s[i])
  IN  before # after

\* [m.group(0) for m in _DATE_RE.finditer(text)], scanning from position i
RECURSIVE DateFindIter(_, _)

\* the matches from i on, shapes being the ways _DATE_RE matches at i
DateFindAt(s, i, shapes) ==
  IF shapes = {} THEN DateFindIter(s, i + 1)
  ELSE << SubSeq(s, i, i + ShapeLen(FirstTried(shapes)) - 1) >>
         \o DateFindIter(s, i + ShapeLen(FirstTried(shapes)))

DateFindIter(s, i) ==
  IF i > Len(s) THEN << >>
  ELSE DateFindAt(s, i, { sh \in DateShapes(s, i) :
                           WordBoundary(s, i) /\ WordBoundary(s, i + ShapeLen(sh)) })

\* re.split(r"[\-/]", s)
RECURSIVE SplitOnSep(_)
SplitOnSep(s) ==
  IF \A i \in DOMAIN s : ~IsDateSep(s[i]) THEN << s >>
  ELSE LET k == CHOOSE i \in DOMAIN s :
                  IsDateSep(s[i]) /\ \A j \in 1 .. (i - 1) : ~IsDateSep(s[j])
       IN  << SubSeq(s, 1, k - 1) >> \o SplitOnSep(SubSeq(s, k + 1, Len(s)))

IsNumber(s) == s # << >> /\ \A i \in DOMAIN s : IsDigit(s[i])

\* dt.date(y, m, d) of the three numbers, a two-digit year being 2000 + y:
\* Some(date), or None when it raises
DateOfParts(parts) ==
  IF Len(parts) # 3 THEN None
  ELSE IF \E i \in 1 .. 3 : ~IsNumber(parts[i]) THEN None
  ELSE LET m  == int(parts[1])
           d  == int(parts[2])
           y0 == int(parts[3])
           y  == IF y0 < 100 THEN y0 + 2000 ELSE y0
       IN  IF ValidDate(y, m, d) THEN Some(Date(y, m, d)) ELSE None

\* _parse_date(s): Some(date), or None
_parse_date(s) == DateOfParts(SplitOnSep(s))

\* dates.append(d) for each match that parses
RECURSIVE ParsedDates(_)
ParsedDates(tokens) ==
  IF tokens = << >> THEN << >>
  ELSE _parse_date(Head(tokens)) \o ParsedDates(Tail(tokens))

\* if d1 and d2 and d1 <= d2: Some(<<d1, d2>>), else None
OrderedPair(d1, d2) ==
  IF d1 # None /\ d2 # None /\ DateLE(Val(d1), Val(d2))
  THEN Some(<< Val(d1), Val(d2) >>) ELSE None

\* The period the range match m gives: Some(<<d1, d2>>), or None
RangePeriod(m) ==
  IF m = None THEN None
  ELSE OrderedPair(_parse_date(Val(m).g1), _parse_date(Val(m).g2))

\* A month whose end is the day before the first of month m % 12 + 1 of the
\* same year
MonthSameYear(ref) ==
  << Date(ref.y, ref.m, 1), fromordinal(toordinal(Date(ref.y, (ref.m % 12) + 1, 1)) - 1) >>

\* The calendar month of ref: <<start, end>>
MonthOf(ref) ==
  << Date(ref.y, ref.m, 1),
     IF ref.m = 12 THEN Date(ref.y, 12, 31)
     ELSE fromordinal(toordinal(Date(ref.y, ref.m + 1, 1)) - 1) >>

\* ref = max(dates) if dates else today
RefDate(dates, now) == IF dates # << >> THEN MaxDate(dates) ELSE now

\* the explicit range when there is one, else the fallback
PeriodOr(range, text, now) ==
  IF range # None THEN Val(range)
  ELSE MonthOf(RefDate(ParsedDates(DateFindIter(text, 1)), now))

\* infer_statement_period(text), with now = dt.date.today(): <<start, end>>
infer_statement_period(text, now) ==
  PeriodOr(RangePeriod(RangeSearch(text)), text, now)

-----------------------------------------------------------------------------
(* pf/parsers/generic.py: _AMOUNT_RE, _parse_amount                        *)

CharAt(s, i, c) == i >= 1 /\ i <= Len(s) /\ s[i] = c

\* (?:,\d{3}){k} at position p
RECURSIVE ThousandsGroups(_, _, _)
ThousandsGroups(s, p, k) ==
  IF k = 0 THEN TRUE
  ELSE CharAt(s, p, ",") /\ AllDigits(s, p + 1, 3) /\ ThousandsGroups(s, p + 4, k - 1)

\* \.\d{2} at position p
Decimals(s, p) == CharAt(s, p, ".") /\ AllDigits(s, p + 1, 2)

\* The position after the first alternative, \d{1,3}(?:,\d{3})*(?:\.\d{2}),
\* matched greedily at p, 0 when it does not match; shapes are the ways it
\* matches: <<n, k>>, n leading digits and k groups
GroupedEnd(p, shapes) ==
  IF shapes = {} THEN 0
  ELSE LET nk == CHOOSE x \in shapes :
                   \A o \in shapes : x[1] > o[1] \/ (x[1] = o[1] /\ x[2] >= o[2])
       IN  p + nk[1] + 4 * nk[2] + 3

\* The same for the second alternative, \d+\.\d{2}; shapes are the numbers of
\* leading digits it can take
PlainEnd(p, shapes) ==
  IF shapes = {} THEN 0
  ELSE p + (CHOOSE x \in shapes : \A o \in shapes : x >= o) + 3

\* The position after (?P<val>...) matched at p, 0 when it does not match: the
\* first alternative before the second, each greedy
ValEnd(s, p) ==
  LET grouped == GroupedEnd(p, { nk \in (1 .. 3) \X (0 .. (Len(s) \div 4)) :
                                   /\ AllDigits(s, p, nk[1])
                                   /\ ThousandsGroups(s, p + nk[1], nk[2])
                                   /\ Decimals(s, p + nk[1] + 4 * nk[2]) })
  IN  IF grouped # 0 THEN grouped
      ELSE PlainEnd(p, { n \in 1 .. DigitRun(s, p) : Decimals(s, p + n) })

\* The prefixes (?P<sign>-)?\$? can take at i, in the order the engine tries them
AmountPrefixes == << [sign |-> TRUE,  dollar |-> TRUE ],
                     [sign |-> TRUE,  dollar |-> FALSE],
                     [sign |-> FALSE, dollar |-> TRUE ],
                     [sign |-> FALSE, dollar |-> FALSE] >>

ValStart(i, pre) == i + (IF pre.sign THEN 1 ELSE 0) + (IF pre.dollar THEN 1 ELSE 0)

\* The position after the match at i that takes prefix pre, 0 when there is none
AmountEnd(s, i, pre) ==
  IF /\ pre.sign   => CharAt(s, i, "-")
     /\ pre.dollar => CharAt(s, i + (IF pre.sign THEN 1 ELSE 0), "$")
  THEN ValEnd(s, ValStart(i, pre)) ELSE 0

\* _AMOUNT_RE matched at position i with the first of the prefixes k .. 4 that
\* gives a match: None, or Some([start, sign, vstart, end]), the match being
\* s[start .. end - 1] and group val s[vstart .. end - 1]
RECURSIVE AmountTry(_, _, _)

AmountTryEnd(s, i, k, end) ==
  IF end = 0 THEN AmountTry(s, i, k + 1)
  ELSE Some([ start |-> i, sign |-> AmountPrefixes[k].sign,
              vstart |-> ValStart(i, AmountPrefixes[k]), end |-> end ])

AmountTry(s, i, k) ==
  IF k > Len(AmountPrefixes) THEN None
  ELSE AmountTryEnd(s, i, k, AmountEnd(s, i, AmountPrefixes[k]))

\* _AMOUNT_RE.search(s) from position i on
RECURSIVE AmountSearch(_, _)
AmountSearch(s, i) ==
  IF i > Len(s) THEN None
  ELSE FirstSome(AmountTry(s, i, 1), AmountSearch(s, i + 1))

\* the digits of s, in order
RECURSIVE OnlyDigits(_)
OnlyDigits(s) ==
  IF s = << >> THEN << >>
  ELSE (IF IsDigit(Head(s)) THEN << Head(s) >> ELSE << >>) \o OnlyDigits(Tail(s))

\* float(m.group("val").replace(",", "")), in cents
ValCents(s, m) == int(OnlyDigits(SubSeq(s, m.vstart, m.end - 1)))

\* The trailing "-" negating the value instead of forcing it negative
AmountNegated(s, m) ==
  IF m = None THEN None
  ELSE LET val0 == ValCents(s, Val(m))
           val1 == IF Val(m).sign THEN -val0 ELSE val0
       IN  Some(IF endswith(strip(s), << "-" >>) THEN -val1 ELSE val1)

\* The value _parse_amount returns for s when _AMOUNT_RE.search(s) is m
AmountOf(s, m) ==
  IF m = None THEN None
  ELSE LET val0 == ValCents(s, Val(m))
           val1 == IF Val(m).sign THEN -val0 ELSE val0
           \* val = -abs(val)
           val2 == IF endswith(strip(s), << "-" >>)
                   THEN (IF val1 < 0 THEN val1 ELSE -val1) ELSE val1
       IN  Some(val2)

\* _parse_amount(s): None, or Some(cents)
_parse_amount(s) == AmountOf(s, AmountSearch(s, 1))

-----------------------------------------------------------------------------
(* pf/classify.py: extract_institution_and_account                         *)

institutions ==
  << <<"c","h","a","s","e">>,
     <<"w","e","l","l","s"," ","f","a","r","g","o">>,
     <<"b","a","n","k"," ","o","f"," ","a","m","e","r","i","c","a">>,
     <<"a","m","e","r","i","c","a","n"," ","e","x","p","r","e","s","s">>,
     <<"a","m","e","x">>,
     <<"c","i","t","i">>,
     <<"f","i","d","e","l","i","t","y">>,
     <<"v","a","n","g","u","a","r","d">>,
     <<"c","h","a","r","l","e","s"," ","s","c","h","w","a","b">> >>

\* A pattern is a sequence of items [cls, lo, hi]: between lo and hi characters
\* of the class cls, as many as possible (greedy, backtracking).
Lit(str)         == [ i \in DOMAIN str |-> [ cls |-> { str[i] }, lo |-> 1, hi |-> 1 ] ]
\* lo or more (hi = -1: no upper limit)
Star(cls, lo)    == << [ cls |-> cls, lo |-> lo, hi |-> -1 ] >>
SpaceCls == { " ", "\n", "\t" }

RECURSIVE ClassRun(_, _, _)
ClassRun(s, i, cls) ==
  IF i <= Len(s) /\ s[i] \in cls THEN 1 + ClassRun(s, i + 1, cls) ELSE 0

\* The pattern matched at position i: None, or Some(<<from, to>>), the last
\* item having matched s[from .. to - 1].  TryItems tries n characters for the
\* first item, then fewer.
RECURSIVE MatchItems(_, _, _), TryItems(_, _, _, _)
MatchItems(s, i, items) ==
  LET it   == Head(items)
      run  == ClassRun(s, i, it.cls)
      most == IF it.hi < 0 \/ run <= it.hi THEN run ELSE it.hi
  IN  TryItems(s, i, items, most)

TryItems(s, i, items, n) ==
  IF n < Head(items).lo THEN None
  ELSE IF Len(items) = 1 THEN Some(<< i, i + n >>)
  ELSE LET m == MatchItems(s, i + n, Tail(items))
       IN  IF m # None THEN m ELSE TryItems(s, i, items, n - 1)

\* re.search(pattern, s) from position i on, for a pattern whose last item is
\* its group 1: None, or Some(m.group(1))
RECURSIVE SearchGroup1(_, _, _)
SearchGroup1(s, i, items) ==
  IF i > Len(s) THEN None
  ELSE LET m == MatchItems(s, i, items)
       IN  IF m = None THEN SearchGroup1(s, i + 1, items)
           ELSE Some(SubSeq(s, Val(m)[1], Val(m)[2] - 1))

\* (\d{3,4})
Last4 == << [ cls |-> Range(Digits), lo |-> 3, hi |-> 4 ] >>

patterns ==
  << Lit(<<"a","c","c","o","u","n","t"," ","e","n","d","i","n","g"," ","i","n">>) \o Star(SpaceCls, 0) \o Last4,
     Lit(<<"a","c","c","o","u","n","t">>) \o Star(SpaceCls, 0) \o Lit(<<"n","o">>)
       \o << [ cls |-> { "." }, lo |-> 0, hi |-> 1 ] >> \o Star(SpaceCls, 0)
       \o Star({ "*" }, 1) \o Star(SpaceCls, 0) \o Last4,
     Star({ "*" }, 2) \o Last4,
     Lit(<<"x","x","x","x">>) \o Star(SpaceCls, 0) \o Last4 >>

\* for name in institutions: if name in low: inst = name.title(); break
RECURSIVE FirstInstitution(_, _)
FirstInstitution(low, names) ==
  IF names = << >> THEN None
  ELSE IF Contains(low, Head(names)) THEN Some(title(Head(names)))
  ELSE FirstInstitution(low, Tail(names))

\* for p in patterns: m = re.search(p, low); if m: last4 = m.group(1); break
RECURSIVE FirstLast4(_, _)
FirstLast4(low, pats) ==
  IF pats = << >> THEN None
  ELSE LET m == SearchGroup1(low, 1, Head(pats))
       IN  IF m # None THEN m ELSE FirstLast4(low, Tail(pats))

\* extract_institution_and_account(text): [inst, masked], each None or Some(str)
extract_institution_and_account(text) ==
  LET low   == lower(text)
      inst  == FirstInstitution(low, institutions)
      last4 == FirstLast4(low, patterns)
  IN  [ inst   |-> inst,
        masked |-> IF last4 # None /\ Val(last4) # << >>
                   THEN Some(<< "*", "*", "*", "*" >> \o Val(last4)) ELSE None ]

-----------------------------------------------------------------------------
(* pf/db.py: the tables and the calls on them.  A table is the sequence of *)
(* its rows in insertion order; a row's INTEGER PRIMARY KEY is its index   *)
(* (no row is ever deleted).                                               *)

\* str(n) for n >= 0, and n zero-padded to w digits (f"{n:0wd}")
RECURSIVE str(_)
str(n) == IF n < 10 THEN << Digits[n + 1] >> ELSE str(n \div 10) \o << Digits[(n % 10) + 1] >>

RECURSIVE ZeroPad(_, _)
ZeroPad(s, w) == IF Len(s) >= w THEN s ELSE ZeroPad(<< "0" >> \o s, w)

\* date.isoformat(): YYYY-MM-DD
isoformat(dt) ==
  ZeroPad(str(dt.y), 4) \o << "-" >> \o ZeroPad(str(dt.m), 2) \o << "-" >> \o ZeroPad(str(dt.d), 2)

\* init_if_needed's seed rows (name, parent_id, type)
seed ==
  << [ name |-> "Uncategorized",   type |-> "expense" ],
     [ name |-> "Groceries",       type |-> "expense" ],
     [ name |-> "Dining",          type |-> "expense" ],
     [ name |-> "Transport",       type |-> "expense" ],
     [ name |-> "Shopping",        type |-> "expense" ],
     [ name |-> "Utilities",       type |-> "expense" ],
     [ name |-> "Mortgage",        type |-> "expense" ],
     [ name |-> "Income:Salary",   type |-> "income" ],
     [ name |-> "Income:Dividend", type |-> "income" ] >>

\* Database.init_if_needed: the tables exist after it; the categories are
\* seeded when the table is empty
init_if_needed(cats) == IF Len(cats) = 0 THEN seed ELSE cats

\* A lookup by hash that finds no row
HashNeverFound(stmts, file_hash) == FALSE

\* Database.statement_exists_by_hash
statement_exists_by_hash(stmts, file_hash) ==
  \E i \in DOMAIN stmts : stmts[i].source_file_hash = file_hash

\* SELECT id ... LIMIT 1: the first of the rows ids that satisfy the condition
FirstRow(ids) == CHOOSE i \in ids : \A j \in ids : i <= j

\* What ensure_account returns and leaves, found being the rows its SELECT finds
AccountOf(accts, found, account_type, name, institution) ==
  IF found # {} THEN [ id |-> FirstRow(found), accounts |-> accts ]
  ELSE [ id |-> Len(accts) + 1,
         accounts |-> Append(accts, [ type |-> account_type, name |-> name,
                                      institution |-> institution ]) ]

\* Database.ensure_account: [id, accounts], the returned id and the table after
\* the call
ensure_account(accts, account_type, name, institution) ==
  AccountOf(accts,
            { i \in DOMAIN accts : accts[i].name = name /\ accts[i].institution = institution },
            account_type, name, institution)

\* A table statements without the UNIQUE constraint
NoConstraint(stmts, row) == TRUE

\* The constraint UNIQUE (account_id, period_start, period_end) of statements
UniqueStatement(stmts, row) ==
  \A i \in DOMAIN stmts :
    ~ /\ stmts[i].account_id = row.account_id
      /\ stmts[i].period_start = row.period_start
      /\ stmts[i].period_end = row.period_end

\* Database.insert_statement: [ok, id, statements]; ok = FALSE is the
\* sqlite3.IntegrityError of the UNIQUE constraint, and no row is written
insert_statement(stmts, account_id, period_start, period_end, source_file_path, source_file_hash, status) ==
  LET row == [ account_id       |-> account_id,
               period_start     |-> isoformat(period_start),
               period_end       |-> isoformat(period_end),
               source_file_path |-> source_file_path,
               source_file_hash |-> source_file_hash,
               status           |-> status ]
  IN  IF UniqueStatement(stmts, row)
      THEN [ ok |-> TRUE, id |-> Len(stmts) + 1, statements |-> Append(stmts, row) ]
      ELSE [ ok |-> FALSE, id |-> 0, statements |-> stmts ]

\* Database.insert_transaction: the table after the call
insert_transaction(txns, account_id, statement_id, posted_at, description, amount, category_id, is_income, is_expense) ==
  Append(txns, [ account_id   |-> account_id,
                 statement_id |-> statement_id,
                 posted_at    |-> isoformat(posted_at),
                 description  |-> description,
                 amount       |-> amount,
                 currency     |-> "USD",
                 category_id  |-> category_id,
                 is_transfer  |-> 0,
                 is_income    |-> is_income,
                 is_expense   |-> is_expense ])

\* What get_or_create_category returns and leaves, found being the rows its
\* SELECT finds
CategoryOf(cats, found, name, type_) ==
  IF found # {} THEN [ id |-> FirstRow(found), categories |-> cats ]
  ELSE [ id |-> Len(cats) + 1,
         categories |-> Append(cats, [ name |-> name, type |-> type_ ]) ]

\* Database.get_or_create_category: [id, categories]
get_or_create_category(cats, name, type_) ==
  CategoryOf(cats, { i \in DOMAIN cats : cats[i].name = name }, name, type_)

-----------------------------------------------------------------------------
(* pf/parsers/generic.py: categorize_transaction                           *)

mapping ==
  << << <<"a","m","a","z","o","n">>, << "Shopping", "expense" >> >>,
     << <<"t","a","r","g","e","t">>, << "Shopping", "expense" >> >>,
     << <<"w","a","l","m","a","r","t">>, << "Shopping", "expense" >> >>,
     << <<"w","h","o","l","e"," ","f","o","o","d","s">>, << "Groceries", "expense" >> >>,
     << <<"t","r","a","d","e","r"," ","j","o","e">>, << "Groceries", "expense" >> >>,
     << <<"c","o","s","t","c","o">>, << "Groceries", "expense" >> >>,
     << <<"u","b","e","r">>, << "Transport", "expense" >> >>,
     << <<"l","y","f","t">>, << "Transport", "expense" >> >>,
     << <<"s","h","e","l","l">>, << "Transport", "expense" >> >>,
     << <<"e","x","x","o","n">>, << "Transport", "expense" >> >>,
     << <<"s","t","a","r","b","u","c","k","s">>, << "Dining", "expense" >> >>,
     << <<"r","e","s","t","a","u","r","a","n","t">>, << "Dining", "expense" >> >>,
     << <<"m","c","d","o","n","a","l","d">>, << "Dining", "expense" >> >>,
     << <<"m","o","r","t","g","a","g","e">>, << "Mortgage", "expense" >> >>,
     << <<"p","a","y","r","o","l","l">>, << "Income:Salary", "income" >> >>,
     << <<"s","a","l","a","r","y">>, << "Income:Salary", "income" >> >>,
     << <<"d","i","v","i","d","e","n","d">>, << "Income:Dividend", "income" >> >>,
     << <<"i","n","t","e","r","e","s","t">>, << "Income:Dividend", "income" >> >> >>

\* for key, cat in mapping: if key in desc: chosen = cat; break
RECURSIVE FirstRule(_, _)
FirstRule(desc, rules) ==
  IF rules = << >> THEN None
  ELSE IF Contains(desc, Head(rules)[1]) THEN Some(Head(rules)[2])
  ELSE FirstRule(desc, Tail(rules))

\* The flags of categorize_transaction
SignFlags(amount) == [ is_income |-> amount > 0, is_expense |-> amount < 0 ]

\* chosen_name, chosen_type
ChosenPair(chosen, flags) ==
  IF chosen = None
  THEN << "Uncategorized", IF flags.is_expense THEN "expense" ELSE "income" >>
  ELSE Val(chosen)

\* What categorize_transaction returns when db.get_or_create_category returned got
Categorized(got, flags) ==
  [ category_id |-> Some(got.id), flags |-> flags, categories |-> got.categories ]

\* A categorizer that falls back to the first category when the lookup raises
FirstOnFailure(cats, pair, flags, db_fails) ==
  IF db_fails THEN [ category_id |-> Some(1), flags |-> flags, categories |-> cats ]
  ELSE Categorized(get_or_create_category(cats, pair[1], pair[2]), flags)

\* The try block around db.get_or_create_category(chosen_name, chosen_type)
TryCategory(cats, pair, flags, db_fails) ==
  IF db_fails THEN [ category_id |-> None, flags |-> flags, categories |-> cats ]
  ELSE Categorized(get_or_create_category(cats, pair[1], pair[2]), flags)

\* categorize_transaction(db, txn), db_fails telling whether
\* db.get_or_create_category raises: [category_id, flags, categories], the
\* category id (None or Some(id)), the flags and the table categories after it
categorize_transaction(cats, txn, db_fails) ==
  TryCategory(cats,
              ChosenPair(FirstRule(lower(txn.description), mapping), SignFlags(txn.amount)),
              SignFlags(txn.amount), db_fails)

-----------------------------------------------------------------------------
(* pf/parsers/generic.py: _DATE_LINE_RE, extract_transactions_from_text    *)

\* str.splitlines() of a text whose line breaks are "\n"
RECURSIVE splitlines(_)
splitlines(s) ==
  IF s = << >> THEN << >>
  ELSE IF \A i \in DOMAIN s : s[i] # "\n" THEN << s >>
  ELSE LET k == CHOOSE i \in DOMAIN s : s[i] = "\n" /\ \A j \in 1 .. (i - 1) : s[j] # "\n"
       IN  << SubSeq(s, 1, k - 1) >> \o splitlines(SubSeq(s, k + 1, Len(s)))

\* sep.join(parts)
RECURSIVE join(_, _)
join(sep, parts) ==
  IF parts = << >> THEN << >>
  ELSE IF Len(parts) = 1 THEN Head(parts)
  ELSE Head(parts) \o sep \o join(sep, Tail(parts))

\* [ln.strip() for ln in lns if ln.strip()]
RECURSIVE StrippedNonBlank(_)
StrippedNonBlank(lns) ==
  IF lns = << >> THEN << >>
  ELSE (IF strip(Head(lns)) # << >> THEN << strip(Head(lns)) >> ELSE << >>)
         \o StrippedNonBlank(Tail(lns))

\* the list lines after the loops over the pages
RECURSIVE PageLines(_)
PageLines(pages_text) ==
  IF pages_text = << >> THEN << >>
  ELSE StrippedNonBlank(splitlines(Head(pages_text))) \o PageLines(Tail(pages_text))

\* re.search(r"\b(20\d{2})\b", s) from position i on: None, or Some(year)
RECURSIVE YearSearch(_, _)
YearSearch(s, i) ==
  IF i > Len(s) THEN None
  ELSE IF /\ WordBoundary(s, i)
          /\ CharAt(s, i, "2") /\ CharAt(s, i + 1, "0") /\ AllDigits(s, i + 2, 2)
          /\ WordBoundary(s, i + 4)
       THEN Some(int(SubSeq(s, i, i + 3)))
  ELSE YearSearch(s, i + 1)

\* The ways \d{1,2}[\-/]\d{1,2}(?:[\-/]\d{2,4})?\s+ matches the start of ln:
\* <<a, b, c>>, the digit counts, c = 0 when the optional year is absent
LineShapes(ln) ==
  { sh \in (1 .. 2) \X (1 .. 2) \X {0, 2, 3, 4} :
      /\ AllDigits(ln, 1, sh[1])
      /\ IsSepAt(ln, 1 + sh[1])
      /\ AllDigits(ln, 2 + sh[1], sh[2])
      /\ sh[3] > 0 => /\ IsSepAt(ln, 2 + sh[1] + sh[2])
                      /\ AllDigits(ln, 3 + sh[1] + sh[2], sh[3])
      /\ LET e == 2 + sh[1] + sh[2] + (IF sh[3] > 0 THEN 1 + sh[3] ELSE 0)
         IN  SpaceRun(ln, e) >= 1 /\ e + SpaceRun(ln, e) <= Len(ln) }

\* The length of the date a line shape takes
LineDateLen(sh) == 1 + sh[1] + sh[2] + (IF sh[3] > 0 THEN 1 + sh[3] ELSE 0)

\* _DATE_LINE_RE.match(ln) for a stripped line, shapes being LineShapes(ln):
\* None, or Some([date, rest]) with group date and group rest
DateLineOf(ln, shapes) ==
  IF shapes = {} THEN None
  ELSE LET n == LineDateLen(FirstTried(shapes))
       IN  Some([ date |-> SubSeq(ln, 1, n),
                  rest |-> SubSeq(ln, 1 + n + SpaceRun(ln, 1 + n), Len(ln)) ])

\* The date dateutil reads from the numbers of a fragment, month first, the
\* year of a fragment without one being default_year and a two-digit year being
\* 2000 + YY; None when that is no date
FragmentDate(parts, default_year) ==
  IF Len(parts) \notin {2, 3} \/ \E i \in DOMAIN parts : ~IsNumber(parts[i]) THEN None
  ELSE LET m  == int(parts[1])
           d  == int(parts[2])
           y0 == IF Len(parts) = 3 THEN int(parts[3]) ELSE default_year
           y  == IF Len(parts) = 3 /\ Len(parts[3]) = 2 THEN y0 + 2000 ELSE y0
       IN  IF ValidDate(y, m, d) THEN Some(Date(y, m, d)) ELSE None

\* _parse_date_from_fragment(s, default_year): Some(date), or None
_parse_date_from_fragment(s, default_year) == FragmentDate(SplitOnSep(s), default_year)

\* re.sub(_AMOUNT_RE, "", s) from position i on
RECURSIVE RemoveAmounts(_, _)

\* the same, m being _AMOUNT_RE matched at position i
RemoveAt(s, i, m) ==
  IF m = None THEN << s[i] >> \o RemoveAmounts(s, i + 1)
  ELSE RemoveAmounts(s, Val(m).end)

RemoveAmounts(s, i) ==
  IF i > Len(s) THEN << >> ELSE RemoveAt(s, i, AmountTry(s, i, 1))

\* re.sub(r"\s{2,}", " ", s) from position i on
RECURSIVE CollapseSpaces(_, _)
CollapseSpaces(s, i) ==
  IF i > Len(s) THEN << >>
  ELSE IF SpaceRun(s, i) >= 2 THEN << " " >> \o CollapseSpaces(s, i + SpaceRun(s, i))
  ELSE << s[i] >> \o CollapseSpaces(s, i + 1)

\* The list the loop body appends: one transaction, or nothing when amount or
\* posted_at is None
Appended(amount, posted_at, description) ==
  IF amount = None \/ posted_at = None THEN << >>
  ELSE << [ posted_at   |-> Val(posted_at),
            description |-> IF description # << >> THEN description
                            ELSE <<"T","r","a","n","s","a","c","t","i","o","n">>,
            amount      |-> Val(amount) ] >>

\* The loop body for line ln, m being _DATE_LINE_RE.match(ln)
LineTransaction(ln, m, default_year) ==
  IF m = None THEN << >>
  ELSE Appended(FirstSome(_parse_amount(Val(m).rest), _parse_amount(ln)),
                _parse_date_from_fragment(Val(m).date, default_year),
                CollapseSpaces(strip(RemoveAmounts(Val(m).rest, 1)), 1))

\* The loop over lines: the transactions of the lines lns
RECURSIVE LineTransactions(_, _)
LineTransactions(lns, default_year) ==
  IF lns = << >> THEN << >>
  ELSE LineTransaction(Head(lns), DateLineOf(Head(lns), LineShapes(Head(lns))), default_year)
         \o LineTransactions(Tail(lns), default_year)

\* lines 42-73, lines being the list the loops over the pages built;
\* default_year = int(year_match.group(1)) if year_match else today().year
TransactionsOfLines(lines, now) ==
  LineTransactions(lines,
                   Val(FirstSome(YearSearch(join(<< "\n" >>, lines), 1), Some(now.y))))

\* extract_transactions_from_text(pages_text), with now = dt.date.today()
extract_transactions_from_text(pages_text, now) ==
  TransactionsOfLines(PageLines(pages_text), now)

-----------------------------------------------------------------------------
(* The environment of import_cmd: the files and their content              *)

\* The order of the characters the paths use (their code points)
Ord(c) ==
  LET CodeOrder == << ".", "/" >> \o Digits \o Upper \o << "_" >> \o Lower
  IN  CHOOSE i \in DOMAIN CodeOrder : CodeOrder[i] = c

\* a < b on str
RECURSIVE StrLess(_, _)
StrLess(a, b) ==
  IF b = << >> THEN FALSE
  ELSE IF a = << >> THEN TRUE
  ELSE IF Head(a) # Head(b) THEN Ord(Head(a)) < Ord(Head(b))
  ELSE StrLess(Tail(a), Tail(b))

\* sorted(S) of a set of str
RECURSIVE sorted(_)
sorted(S) ==
  IF S = {} THEN << >>
  ELSE LET least == CHOOSE x \in S : \A y \in S : y = x \/ StrLess(x, y)
       IN  << least >> \o sorted(S \ { least })

\* os.path.join(a, b), os.path.basename(p), os.path.abspath(p)
path_join(a, b) == a \o << "/" >> \o b

RECURSIVE basename(_)
basename(p) ==
  IF \A i \in DOMAIN p : p[i] # "/" THEN p ELSE basename(Tail(p))

\* the current directory being /w
abspath(p) == IF p # << >> /\ Head(p) = "/" THEN p ELSE path_join(<<"/","w">>, p)

\* The directories of import_cmd (cli.py lines 21-25) and its --input option
\* project_root being /p
data_dir         == path_join(<<"/","p">>, <<"d","a","t","a">>)
archive_dir      == path_join(data_dir, <<"a","r","c","h","i","v","e">>)
unclassified_dir == path_join(data_dir, <<"u","n","c","l","a","s","s","i","f","i","e","d">>)
input_dir        == <<"i","n">>

\* The places in the input folder where the user puts documents
InputPaths == { <<"i","n","/","a",".","p","d","f">>, <<"i","n","/","s","/","B",".","P","D","F">> }

\* The documents: the bytes of a file, named, and the text of the pages the
\* PDF reader extracts from them.  A, B and D name the same institution and
\* account; A and D are mortgage statements, B is a bank statement; D states no
\* date; U has no cue of any type.
Bytes == { "A", "B", "D", "U" }


PagesOf(bytes) ==
  CASE bytes = "A"  -> << <<"C","h","a","s","e"," ","M","o","r","t","g","a","g","e"," ","S","t","a","t","e","m","e","n","t","\n","A","c","c","o","u","n","t"," ","e","n","d","i","n","g"," ","i","n"," ","1","2","3","4","\n","0","1","/","0","1","/","2","0","2","4"," ","-"," ","0","1","/","3","1","/","2","0","2","4","\n","E","s","c","r","o","w","\n","0","1","/","0","5"," ","U","B","E","R"," ","T","R","I","P"," ","$","1","2",".","5","0","\n","0","1","/","0","9"," ","P","a","y","r","o","l","l"," ","0",".","0","0">> >>
    [] bytes = "B"  -> << <<"C","H","A","S","E"," ","c","h","e","c","k","i","n","g","\n","x","x","x","x"," ","1","2","3","4","\n","0","2","/","0","1","/","2","0","2","4"," ","t","o"," ","0","2","/","2","9","/","2","0","2","4","\n","0","2","/","0","3"," ","d","e","p","o","s","i","t"," ","5",".","0","0","-">> >>
    [] bytes = "D"  -> << <<"C","h","a","s","e"," ","M","o","r","t","g","a","g","e"," ","e","s","c","r","o","w","\n","A","c","c","o","u","n","t"," ","e","n","d","i","n","g"," ","i","n"," ","1","2","3","4">> >>
    [] bytes = "U"  -> << <<"h","e","l","l","o","\n","0","3","/","0","1","/","2","0","2","4"," ","x"," ","1",".","0","0">> >>

\* hashlib.sha256(file_bytes).hexdigest(): a digest, different for different bytes
sha256(bytes) == << "sha256", bytes >>

\* util.find_pdfs_in_dir(root_dir) on the file system files
find_pdfs_in_dir(files, root_dir) ==
  sorted({ p \in DOMAIN files :
             /\ Len(p) > Len(root_dir) + 1
             /\ SubSeq(p, 1, Len(root_dir) + 1) = root_dir \o << "/" >>
             /\ endswith(lower(basename(p)), <<".","p","d","f">>) })

\* Database.read_pdf_text: [text, pages], the first three pages at most
read_pdf_text(bytes) ==
  LET pages_text == SubSeq(PagesOf(bytes), 1, IF 3 <= Len(PagesOf(bytes)) THEN 3 ELSE Len(PagesOf(bytes)))
  IN  [ text |-> join(<< "\n" >>, pages_text), pages |-> pages_text ]

\* The dates dt.date.today() returns in the runs modelled
Todays == { Date(2024, 1, 20), Date(2024, 2, 20) }

\* What import_cmd computes from a document's text (lines 50-52, 76 and 88)
Understand(b, now) ==
  LET read == read_pdf_text(b)
  IN  [ cls    |-> classify_statement(read.text),
        who    |-> extract_institution_and_account(read.text),
        period |-> infer_statement_period(read.text, now),
        txns   |-> extract_transactions_from_text(read.pages, now) ]

\* Understand, tabulated over the documents and dates in keys
RECURSIVE Tabulate(_)
Tabulate(keys) ==
  IF keys = {} THEN << >>
  ELSE LET key == CHOOSE x \in keys : TRUE
       IN  (key :> Understand(key[1], key[2])) @@ Tabulate(keys \ { key })

Understood == Tabulate(Bytes \X Todays)

-----------------------------------------------------------------------------
(* pf/cli.py: import_cmd                                                   *)

MaxRuns  == 2
MaxDrops == 2

\* The calls of one loop iteration that may raise: open/read of the file, the
\* hash lookup, the PDF reader, os.makedirs of the destination, and the three
\* database writes (insert_transaction for the k-th transaction)
\* The outcomes of these calls in one iteration: which call raises (k: which
\* insert_transaction), for which transactions the category lookup raises, and
\* whether os.rename succeeds.  One outcome for each way an iteration can go: a
\* part of the outcome that the iteration cannot reach, because an earlier call
\* raises, is left at its default
Outcomes ==
  { o \in [ raise_at : { "none", "open", "statement_exists_by_hash", "read_pdf_text",
                         "makedirs", "ensure_account", "insert_statement",
                         "insert_transaction" },
            k : 1 .. 2, cat_fail : SUBSET (1 .. 2), rename_ok : BOOLEAN ] :
      /\ o.raise_at # "insert_transaction" => o.k = 1
      /\ o.raise_at \notin { "none", "makedirs", "insert_transaction" } => o.cat_fail = {}
      /\ o.raise_at # "none" => o.rename_ok }

UNKNOWN == <<"U","n","k","n","o","w","n">>

\* institution or "Unknown";  f"{institution or 'Unknown'} {masked_account or ''}".strip()
OrElse(opt, default) == IF opt = None \/ Val(opt) = << >> THEN default ELSE Val(opt)
AccountName(who) == strip(OrElse(who.inst, UNKNOWN) \o << " " >> \o OrElse(who.masked, << >>))

\* os.rename(src, dst): dst is replaced when it exists
rename(files, src, dst) ==
  [ p \in (DOMAIN files \ { src }) \cup { dst } |-> IF p = dst THEN files[src] ELSE files[p] ]

\* lines 56-64 and 111-119: ensure_dirs([dst_dir]) has succeeded; move the file
\* unless it is there already; an OSError of os.rename is swallowed
MoveTo(files, pdf_path, dst_dir, rename_ok) ==
  LET dst_path == path_join(dst_dir, basename(pdf_path))
  IN  IF abspath(pdf_path) # abspath(dst_path) /\ rename_ok
      THEN rename(files, pdf_path, dst_path) ELSE files

\* lines 89-104: the loop over the transactions from the j-th on.  st holds the
\* tables; the result adds raised (an insert_transaction raised) and ntx, the
\* number of rows inserted
RECURSIVE InsertAll(_, _, _, _, _, _)

\* lines 91-104: db.insert_transaction for the j-th transaction, cat being what
\* categorize_transaction returned for it
InsertOne(st, txns, j, account_id, statement_id, o, cat) ==
  IF o.raise_at = "insert_transaction" /\ o.k = j
  THEN [ st EXCEPT !.categories = cat.categories, !.raised = TRUE ]
  ELSE InsertAll(
         [ st EXCEPT
             !.categories = cat.categories,
             !.transactions =
                insert_transaction(st.transactions, account_id, statement_id,
                                   txns[j].posted_at, txns[j].description,
                                   txns[j].amount, cat.category_id,
                                   IF cat.flags.is_income THEN 1 ELSE 0,
                                   IF cat.flags.is_expense THEN 1 ELSE 0),
             !.ntx = st.ntx + 1 ],
         txns, j + 1, account_id, statement_id, o)

InsertAll(st, txns, j, account_id, statement_id, o) ==
  IF j > Len(txns) THEN [ st EXCEPT !.raised = FALSE ]
  ELSE InsertOne(st, txns, j, account_id, statement_id, o,
                 categorize_transaction(st.categories, txns[j], j \in o.cat_fail))

\* lines 120-122: except Exception: skipped += 1
Caught(st, at) == [ st EXCEPT !.skipped = st.skipped + 1, !.kind = "error", !.at = at ]

\* lines 108-119: archive the processed file under
\* os.path.join(archive_dir, yyyy, mm) of the period's end
Archive(st, pdf_path, o, u) ==
  IF o.raise_at = "makedirs" THEN Caught(st, "makedirs")
  ELSE [ st EXCEPT
           !.fs = MoveTo(st.fs, pdf_path,
                         path_join(path_join(archive_dir, str(u.period[2].y)),
                                   ZeroPad(str(u.period[2].m), 2)),
                         o.rename_ok),
           !.kind = "imported" ]

\* A loop that removes the document's statement row and transaction rows when
\* an insert_transaction raises
RolledBack(st, pdf_path, o, u) ==
  IF st.raised
  THEN Caught([ st EXCEPT
                  !.statements = SubSeq(st.statements, 1, Len(st.statements) - 1),
                  !.transactions = SubSeq(st.transactions, 1, Len(st.transactions) - st.ntx) ],
              "insert_transaction")
  ELSE Archive([ st EXCEPT !.imported = st.imported + 1 ], pdf_path, o, u)

\* lines 106-119, st being the state the loop over the transactions left
AfterTransactions(st, pdf_path, o, u) ==
  IF st.raised THEN Caught(st, "insert_transaction")
  ELSE Archive([ st EXCEPT !.imported = st.imported + 1 ], pdf_path, o, u)

\* lines 87-119, ins being what db.insert_statement returned
AfterStatement(st, ins, account_id, pdf_path, o, u) ==
  IF ~ins.ok THEN Caught(st, "unique")
  ELSE AfterTransactions(
         InsertAll([ st EXCEPT !.statements = ins.statements ], u.txns, 1,
                   account_id, ins.id, o),
         pdf_path, o, u)

\* lines 75-119, st being the state after db.ensure_account returned account_id
AfterAccount(st, account_id, pdf_path, file_hash, o, u) ==
  IF o.raise_at = "insert_statement" THEN Caught(st, "insert_statement")
  ELSE AfterStatement(st,
                      insert_statement(st.statements, account_id, u.period[1], u.period[2],
                                       abspath(pdf_path), file_hash, "parsed"),
                      account_id, pdf_path, o, u)

\* lines 68-119, acct being what db.ensure_account returned
WithAccount(st, acct, pdf_path, file_hash, o, u) ==
  AfterAccount([ st EXCEPT !.accounts = acct.accounts ], acct.id, pdf_path, file_hash, o, u)

\* lines 54-66: low confidence, move to unclassified and skip
Unclassified(st, pdf_path, o) ==
  IF o.raise_at = "makedirs" THEN Caught(st, "makedirs")
  ELSE [ st EXCEPT !.fs = MoveTo(st.fs, pdf_path, unclassified_dir, o.rename_ok),
                   !.skipped = st.skipped + 1,
                   !.kind = "unclassified" ]

\* A threshold that no confidence is below
NeverLow(cls) == FALSE

\* line 54: confidence < 0.5, the confidence being cls.num / cls.den
LowConfidence(cls) == 2 * cls.num < cls.den

\* lines 54-119, u being what lines 50-52 (and 76, 88) compute from the text
AfterRead(st, pdf_path, file_hash, o, u) ==
  IF LowConfidence(u.cls) THEN Unclassified(st, pdf_path, o)
  ELSE IF o.raise_at = "ensure_account" THEN Caught(st, "ensure_account")
  ELSE WithAccount(st,
                   ensure_account(st.accounts, u.cls.type, AccountName(u.who),
                                  OrElse(u.who.inst, UNKNOWN)),
                   pdf_path, file_hash, o, u)

\* lines 43-119, file_bytes being what line 42 read
AfterOpen(st, pdf_path, file_bytes, o, now) ==
  IF o.raise_at = "statement_exists_by_hash"
    THEN Caught(st, "statement_exists_by_hash")
  ELSE IF statement_exists_by_hash(st.statements, sha256(file_bytes))
    THEN [ st EXCEPT !.skipped = st.skipped + 1, !.kind = "duplicate" ]
  ELSE IF o.raise_at = "read_pdf_text"
    THEN Caught(st, "read_pdf_text")
  ELSE AfterRead(st, pdf_path, sha256(file_bytes), o, Understood[<< file_bytes, now >>])

\* lines 39-122: one iteration of the loop, for pdf_path, from the state st
\* (the tables, the files, the counters), under the outcomes o, at the date now
ImportDocument(st, pdf_path, o, now) ==
  IF o.raise_at = "open" \/ pdf_path \notin DOMAIN st.fs THEN Caught(st, "open")
  ELSE AfterOpen(st, pdf_path, st.fs[pdf_path], o, now)

NoEvent == [ kind |-> "none", at |-> "none", path |-> << >>, bytes |-> "none",
             ntx |-> 0, cat_fail |-> {}, rename_ok |-> FALSE ]

MainInit ==
  /\ accounts = << >>
  /\ statements = << >>
  /\ transactions = << >>
  /\ categories = << >>
  \* a file of the input folder that is no PDF
  /\ fs = (<<"i","n","/","n",".","t","x","t">> :> "U")
  /\ pc = "idle"
  /\ pdf_paths = << >>
  /\ idx = 0
  /\ imported = 0
  /\ skipped = 0
  /\ ev = NoEvent
  /\ runs = 0
  /\ drops = 0

Init ==
  /\ MainInit
  /\ today \in Todays
  /\ arg = None
  /\ ret = None

\* The user puts a file into the input folder, between two runs
DropFile ==
  /\ pc # "loop"
  /\ drops < MaxDrops
  /\ \E p \in InputPaths, b \in Bytes :
       fs' = [ q \in DOMAIN fs \cup { p } |-> IF q = p THEN b ELSE fs[q] ]
  /\ drops' = drops + 1
  /\ UNCHANGED << accounts, statements, transactions, categories, pc, pdf_paths, idx,
                  imported, skipped, today, ev, runs, arg, ret >>

\* import_cmd, lines 21-38, with PDF files found: the loop is entered, on a day
\* that dt.date.today() returns during the run
StartRun ==
  /\ pc # "loop"
  /\ runs < MaxRuns
  /\ find_pdfs_in_dir(fs, input_dir) # << >>
  /\ categories' = init_if_needed(categories)
  /\ pdf_paths' = find_pdfs_in_dir(fs, input_dir)
  /\ idx' = 0
  /\ imported' = 0
  /\ skipped' = 0
  /\ pc' = "loop"
  /\ runs' = runs + 1
  /\ ev' = NoEvent
  /\ today' \in Todays
  /\ UNCHANGED << accounts, statements, transactions, fs, drops, arg, ret >>

\* import_cmd, lines 21-35, with no PDF file found: "No PDF files found.", exit
StartRunEmpty ==
  /\ pc # "loop"
  /\ runs < MaxRuns
  /\ find_pdfs_in_dir(fs, input_dir) = << >>
  /\ categories' = init_if_needed(categories)
  /\ runs' = runs + 1
  /\ pc' = "idle"
  /\ pdf_paths' = << >>
  /\ idx' = 0
  /\ ev' = NoEvent
  /\ UNCHANGED << accounts, statements, transactions, fs, imported, skipped, today,
                  drops, arg, ret >>

\* The program's state after the iteration for pdf_path that ended in st
Iterated(st, pdf_path, o) ==
  /\ accounts' = st.accounts
  /\ statements' = st.statements
  /\ transactions' = st.transactions
  /\ categories' = st.categories
  /\ fs' = st.fs
  /\ imported' = st.imported
  /\ skipped' = st.skipped
  /\ ev' = [ kind |-> st.kind, at |-> st.at, path |-> pdf_path,
             bytes |-> fs[pdf_path], ntx |-> st.ntx,
             cat_fail |-> o.cat_fail \cap (1 .. st.ntx),
             rename_ok |-> o.rename_ok /\ st.kind \in { "imported", "unclassified" } ]

\* import_cmd, lines 39-122: the next iteration of the loop, from the state the
\* program is in
Iterate ==
  /\ pc = "loop"
  /\ idx < Len(pdf_paths)
  /\ \E o \in Outcomes :
       Iterated(ImportDocument([ accounts |-> accounts, statements |-> statements,
                                 transactions |-> transactions, categories |-> categories,
                                 fs |-> fs, imported |-> imported, skipped |-> skipped,
                                 kind |-> "none", at |-> "none", raised |-> FALSE,
                                 ntx |-> 0 ],
                               pdf_paths[idx + 1], o, today),
                pdf_paths[idx + 1], o)
  /\ idx' = idx + 1
  /\ UNCHANGED << pc, pdf_paths, today, runs, drops, arg, ret >>

\* import_cmd, line 124: the loop is over, the counters are reported
Finish ==
  /\ pc = "loop"
  /\ idx = Len(pdf_paths)
  /\ pc' = "done"
  /\ UNCHANGED << accounts, statements, transactions, categories, fs, pdf_paths, idx,
                  imported, skipped, today, ev, runs, drops, arg, ret >>

Next == DropFile \/ StartRun \/ StartRunEmpty \/ Iterate \/ Finish

Spec == Init /\ [][Next]_vars

-----------------------------------------------------------------------------
(* The claims checked under Spec                                           *)

\* This step is an iteration of the loop of import_cmd
IterateStep == pc = "loop" /\ idx < Len(pdf_paths) /\ idx' = idx + 1

\* The document the next iteration processes, and its content
NextPath  == pdf_paths[idx + 1]
NextBytes == fs[NextPath]

\* No row is added to or changed in any table by this step
StoreUnchanged == UNCHANGED << accounts, statements, transactions, categories >>

\* This step counts one document as skipped and none as imported
CountedSkipped == skipped' = skipped + 1 /\ imported' = imported

\* C1, first part: an iteration on a document whose content hash a stored
\* statement row carries counts it as skipped and writes nothing to the store.
C1_SkipsStoredHash ==
  ( /\ IterateStep
    /\ NextPath \in DOMAIN fs
    /\ \E i \in DOMAIN statements : statements[i].source_file_hash = sha256(NextBytes) )
  => CountedSkipped /\ StoreUnchanged

\* C1, second part: no two statement rows share a source_file_hash.
C1_NoSharedHash ==
  \A i, j \in DOMAIN statements :
    i # j => statements[i].source_file_hash # statements[j].source_file_hash

\* C1: once a statement row carrying a document's content hash is stored, every
\* later document with that hash, at any path, in the same or a later run, is
\* counted as skipped and causes no write to the store; so no two statement
\* rows ever share a source_file_hash.
C1_Idempotent == [][C1_SkipsStoredHash]_vars /\ []C1_NoSharedHash

\* C1 happens: a document was skipped because its hash is stored, in a run
\* after the one that imported it and at another path than the one it was
\* imported from.
C1_Witness ==
  /\ ev.kind = "duplicate"
  /\ runs = 2
  /\ \E i \in DOMAIN statements :
       /\ statements[i].source_file_hash = sha256(ev.bytes)
       /\ statements[i].source_file_path # abspath(ev.path)

\* What lines 50-52, 76 and 88 compute for the document of the next iteration
NextUnderstood == Understood[<< NextBytes, today >>]

\* C2: an iteration on a document whose classification confidence is below 0.5
\* counts it as skipped and leaves every table unchanged; its only effect is the
\* attempted move of the file to the unclassified area.
C2_LowConfidenceSkipped ==
  [][ ( /\ IterateStep
        /\ NextPath \in DOMAIN fs
        /\ 2 * NextUnderstood.cls.num < NextUnderstood.cls.den )
      => /\ CountedSkipped
         /\ StoreUnchanged
         /\ fs' \in { fs, rename(fs, NextPath,
                                 path_join(unclassified_dir, basename(NextPath))) } ]_vars

\* C2 happens: a document of confidence below 0.5 was processed and moved to
\* the unclassified area.
C2_Witness ==
  /\ ev.kind = "unclassified"
  /\ ev.rename_ok
  /\ ev.path \notin DOMAIN fs
  /\ path_join(unclassified_dir, basename(ev.path)) \in DOMAIN fs

\* C3: at the end of a run over N discovered documents every document has
\* incremented exactly one of the counters, so imported + skipped = N.
C3_CountedOnce == pc = "done" => imported + skipped = Len(pdf_paths)

\* C4, first part: no two statement rows have the same
\* (account_id, period_start, period_end).
C4_UniquePeriods ==
  \A i, j \in DOMAIN statements :
    i # j => ~ /\ statements[i].account_id = statements[j].account_id
               /\ statements[i].period_start = statements[j].period_start
               /\ statements[i].period_end = statements[j].period_end

\* The next iteration's document has a content hash that is not stored and
\* resolves to an account and a period that a stored statement row has
ResolvesToStored ==
  /\ NextPath \in DOMAIN fs
  /\ \A i \in DOMAIN statements : statements[i].source_file_hash # sha256(NextBytes)
  /\ 2 * NextUnderstood.cls.num >= NextUnderstood.cls.den
  /\ \E i \in DOMAIN statements :
       /\ \E a \in DOMAIN accounts :
            /\ statements[i].account_id = a
            /\ accounts[a].name = AccountName(NextUnderstood.who)
            /\ accounts[a].institution = OrElse(NextUnderstood.who.inst, UNKNOWN)
            /\ \A b \in 1 .. (a - 1) :
                 ~ /\ accounts[b].name = accounts[a].name
                   /\ accounts[b].institution = accounts[a].institution
       /\ statements[i].period_start = isoformat(NextUnderstood.period[1])
       /\ statements[i].period_end = isoformat(NextUnderstood.period[2])

\* C4, second part: an iteration on such a document fails (at insert_statement
\* when no earlier call raises), counts it as skipped and adds no statement and
\* no transaction row.
C4_DuplicatePeriodSkipped ==
  (IterateStep /\ ResolvesToStored)
  => /\ CountedSkipped
     /\ UNCHANGED << statements, transactions >>
     /\ ev'.kind = "error"
     /\ ev'.at \in { "open", "statement_exists_by_hash", "read_pdf_text",
                     "ensure_account", "insert_statement", "unique" }

\* C4: in every reachable state no two statement rows have the same
\* (account_id, period_start, period_end); importing a document with a new
\* content hash that resolves to an account and period already stored fails at
\* insert_statement, is counted as skipped and inserts no transaction row.
C4_UniqueStatement == []C4_UniquePeriods /\ [][C4_DuplicatePeriodSkipped]_vars

\* C4 happens: insert_statement failed on the UNIQUE constraint for a document
\* whose hash is new.
C4_Witness ==
  /\ ev.kind = "error"
  /\ ev.at = "unique"
  /\ \A i \in DOMAIN statements : statements[i].source_file_hash # sha256(ev.bytes)
  /\ statements # << >>

\* C8: when the category lookup fails for a transaction of a document, the
\* transaction is inserted with category_id absent and the flags it has
\* without the failure, every other transaction inserted has a category id, and
\* unless another call raises all the document's transactions are inserted
\* and the document is counted as imported.
C8_CategoryFailureNotFatal ==
  [][ (IterateStep /\ ev'.cat_fail # {})
      => LET txns == NextUnderstood.txns
             base == Len(transactions)
         IN  /\ Len(transactions') = base + ev'.ntx
             /\ SubSeq(transactions', 1, base) = transactions
             /\ \A j \in 1 .. ev'.ntx :
                  /\ transactions'[base + j].category_id = None <=> j \in ev'.cat_fail
                  /\ transactions'[base + j].description = txns[j].description
                  /\ transactions'[base + j].amount = txns[j].amount
                  /\ transactions'[base + j].is_income =
                       (IF categorize_transaction(seed, txns[j], FALSE).flags.is_income
                        THEN 1 ELSE 0)
                  /\ transactions'[base + j].is_expense =
                       (IF categorize_transaction(seed, txns[j], FALSE).flags.is_expense
                        THEN 1 ELSE 0)
             /\ ev'.at # "insert_transaction"
                  => ev'.ntx = Len(txns) /\ imported' = imported + 1 ]_vars

\* C8 happens: a document with two transactions was imported, the category
\* lookup having failed for the first of them only.
C8_Witness ==
  /\ ev.kind = "imported"
  /\ ev.cat_fail = { 1 }
  /\ ev.ntx = 2
  /\ transactions[Len(transactions) - 1].category_id = None
  /\ transactions[Len(transactions)].category_id # None

\* C9: every statement row is attached to an account of the type its document
\* was classified as, so two documents with the same name and institution but
\* different statement types are attached to different accounts.
C9_AccountOfOwnType ==
  \A i \in DOMAIN statements :
    accounts[statements[i].account_id].type =
      Understood[<< statements[i].source_file_hash[2], today >>].cls.type

\* The rows of transactions that belong to the statement row i
TransactionsOf(i) == { j \in DOMAIN transactions : transactions[j].statement_id = i }

\* C12, first part: an iteration that fails after the statement row was
\* inserted (an insert_transaction raises, or the archive directory cannot be
\* made) leaves the statement row and the transactions inserted before the
\* failure in the store, counts the document as skipped and does not move the
\* file.
C12_PartialRowsKept ==
  ( /\ IterateStep
    /\ ev'.kind = "error"
    /\ \/ ev'.at = "insert_transaction"
       \/ ev'.at = "makedirs" /\ ~LowConfidence(NextUnderstood.cls) )
  => /\ statements' # statements
     /\ SubSeq(statements', 1, Len(statements') - 1) = statements
     /\ statements'[Len(statements')].source_file_hash = sha256(NextBytes)
     /\ Len(transactions') = Len(transactions) + ev'.ntx
     /\ SubSeq(transactions', 1, Len(transactions)) = transactions
     /\ \A j \in 1 .. ev'.ntx :
          /\ transactions'[Len(transactions) + j].statement_id = Len(statements')
          /\ transactions'[Len(transactions) + j].description = NextUnderstood.txns[j].description
          /\ transactions'[Len(transactions) + j].amount = NextUnderstood.txns[j].amount
     /\ IF ev'.at = "insert_transaction"
        THEN ev'.ntx < Len(NextUnderstood.txns)
        ELSE ev'.ntx = Len(NextUnderstood.txns)
     /\ skipped' = skipped + 1
     /\ ev'.at = "insert_transaction" => imported' = imported
     /\ fs' = fs

\* C12, second part: an iteration on a document whose content hash a stored
\* statement row carries is skipped at the hash check (or fails before it) and
\* writes nothing.
C12_LaterImportSkipped ==
  ( /\ IterateStep
    /\ NextPath \in DOMAIN fs
    /\ \E i \in DOMAIN statements : statements[i].source_file_hash = sha256(NextBytes) )
  => /\ CountedSkipped
     /\ StoreUnchanged
     /\ \/ ev'.kind = "duplicate"
        \/ ev'.kind = "error" /\ ev'.at \in { "open", "statement_exists_by_hash" }

\* C12, third part: no step adds a transaction row to a statement row that is
\* already stored, or removes a row.
C12_NoRowAddedLater ==
  /\ Len(statements') >= Len(statements)
  /\ SubSeq(statements', 1, Len(statements)) = statements
  /\ Len(transactions') >= Len(transactions)
  /\ SubSeq(transactions', 1, Len(transactions)) = transactions
  /\ \A j \in (Len(transactions) + 1) .. Len(transactions') :
       transactions'[j].statement_id > Len(statements)

\* C12: when processing of a document fails after its statement row was
\* inserted, the statement row and the transactions inserted so far stay in the
\* store, the document is counted as skipped and is not archived; every later
\* import of the same content is skipped by the hash check, and the
\* document's remaining transactions are never stored.
C12_PartialImportStays ==
  [][C12_PartialRowsKept /\ C12_LaterImportSkipped /\ C12_NoRowAddedLater]_vars

\* C12 happens: a document with two transactions, of which only the first was
\* stored because the second insert_transaction raised, is imported again in a
\* later run and skipped at the hash check; its statement row still has one
\* transaction.
C12_Witness ==
  /\ ev.kind = "duplicate"
  /\ runs = 2
  /\ ev.bytes = "A"
  /\ Len(Understood[<< "A", today >>].txns) = 2
  /\ \E i \in DOMAIN statements :
       /\ statements[i].source_file_hash = sha256("A")
       /\ Cardinality(TransactionsOf(i)) = 1
  /\ imported = 0

-----------------------------------------------------------------------------
(* The functions of the parsers applied to inputs of bounded size: arg is   *)
(* the input, ret the result once the call has returned.                   *)

\* The texts made of at most n of the pieces
RECURSIVE Texts(_, _)
Texts(pieces, n) ==
  IF n = 0 THEN { << >> }
  ELSE LET shorter == Texts(pieces, n - 1)
       IN  shorter \cup { p \o s : p \in pieces, s \in shorter }

\* The state in which a function is applied to one of inputs: import_cmd has
\* not started
InitPure(inputs) == MainInit /\ today \in Todays /\ arg \in inputs /\ ret = None

\* The main program's variables, unused while a function is applied
MainIdle == UNCHANGED << accounts, statements, transactions, categories, fs, pc,
                         pdf_paths, idx, imported, skipped, today, ev, runs, drops >>

MaxCues == 3
\* The texts classify_statement is applied to
ClassifyInputs ==
  Texts(
  { <<"e","s","c","r","o","w"," ">>,
    <<"L","o","a","n"," ","N","u","m","b","e","r"," ">>,
    <<"n","e","w"," ","b","a","l","a","n","c","e"," ">>,
    <<"g","a","i","n"," ">>,
    <<"a","g","a","i","n","s","t"," ">>,
    <<"s","a","v","i","n","g","s"," ">>,
    <<"D","E","P","O","S","I","T"," ">>,
    <<"p","a","i","d"," ">> },
    MaxCues)

\* classify_statement(arg) returns
CallClassify == ret = None /\ ret' = Some(classify_statement(arg)) /\ arg' = arg /\ MainIdle

SpecClassify == InitPure(ClassifyInputs) /\ [][CallClassify]_vars

MaxDates == 3
\* The texts infer_statement_period is applied to
PeriodInputs ==
  Texts(
  { <<"1","/","5","/","2","0","2","4">>,
    <<"1","2","/","3","1","/","2","0","2","3">>,
    <<"2","/","3","0","/","2","0","2","4">>,
    <<"1","2","/","9","/","2","4">>,
    <<" ","-"," ">>,
    <<" ","t","o"," ">>,
    <<" ","x"," ">> },
    MaxDates)

\* infer_statement_period(arg) returns, dt.date.today() being today
CallPeriod ==
  ret = None /\ ret' = Some(infer_statement_period(arg, today)) /\ arg' = arg /\ MainIdle

SpecPeriod == InitPure(PeriodInputs) /\ [][CallPeriod]_vars

MaxParts == 4
\* The strings _parse_amount is applied to: those made of at most MaxParts of
\* the pieces in which no run of digits is longer than 7, so that the value of
\* an amount, in cents, is below 2^31
AmountInputs ==
  { s \in Texts({ <<"-">>,
                  <<"$">>,
                  <<" ">>,
                  <<",">>,
                  <<"1",",","2","3","4",".","5","6">>,
                  <<"1","2","3","4",".","5","6">>,
                  <<"4","5",".","0","0">>,
                  <<"7">> },
                MaxParts) :
      \A i \in DOMAIN s : DigitRun(s, i) <= 7 }

\* _parse_amount(arg) returns
CallAmount == ret = None /\ ret' = Some(_parse_amount(arg)) /\ arg' = arg /\ MainIdle

SpecAmount == InitPure(AmountInputs) /\ [][CallAmount]_vars

MaxCents == 3
\* The transactions categorize_transaction is applied to, and whether
\* db.get_or_create_category raises
CategorizeInputs ==
  [ description :
  { <<"U","B","E","R"," ","T","R","I","P">>,
    <<"P","a","y","r","o","l","l">>,
    <<"W","h","o","l","e"," ","F","o","o","d","s">>,
    <<"x">>,
    <<"u","b","e","r"," ","s","a","l","a","r","y">>,
    <<"I","n","t","e","r","e","s","t"," ","o","n"," ","m","o","r","t","g","a","g","e">>,
    <<>>,
    <<"T","r","a","n","s","a","c","t","i","o","n">> },
    amount : (-MaxCents) .. MaxCents, db_fails : BOOLEAN ]

\* categorize_transaction(db, arg) returns, the table categories being seeded
CallCategorize ==
  /\ ret = None
  /\ ret' = Some(categorize_transaction(seed, [ description |-> arg.description,
                                                amount |-> arg.amount ], arg.db_fails))
  /\ arg' = arg
  /\ MainIdle

SpecCategorize == InitPure(CategorizeInputs) /\ [][CallCategorize]_vars

-----------------------------------------------------------------------------
(* The claims checked under SpecCategorize, SpecClassify, SpecPeriod and    *)
(* SpecAmount                                                              *)

\* C5: the flags categorize_transaction returns depend only on the sign of the
\* amount: a positive amount is income and no expense, a negative amount is
\* expense and no income, a zero amount is expense and no income; so exactly one
\* of the two flags is true.
C5_FlagsFromSign ==
  ret # None =>
    /\ arg.amount > 0 => Val(ret).flags.is_income /\ ~Val(ret).flags.is_expense
    /\ arg.amount < 0 => ~Val(ret).flags.is_income /\ Val(ret).flags.is_expense
    /\ arg.amount = 0 => ~Val(ret).flags.is_income /\ Val(ret).flags.is_expense

\* The number of the distinct cue phrases of type that text contains, in lower case
CueCount(type, text) ==
  Cardinality({ cue \in Range(CuesOf(type)) : Contains(lower(text), cue) })

\* C6: classify_statement returns one of the four types, the first in the order
\* mortgage, credit_card, brokerage, bank whose score is the maximum score,
\* the score of a type being the number of its distinct cue phrases present in
\* the lowercased text; also when all scores are 0.
C6_FirstMaxType ==
  ret # None =>
    \E k \in 1 .. 4 :
      /\ StatementTypes = << "mortgage", "credit_card", "brokerage", "bank" >>
      /\ Val(ret).type = StatementTypes[k]
      /\ \A j \in 1 .. 4 : CueCount(StatementTypes[j], arg) <= CueCount(StatementTypes[k], arg)
      /\ \A j \in 1 .. (k - 1) : CueCount(StatementTypes[j], arg) < CueCount(StatementTypes[k], arg)

\* C6 happens: a text in which a cue occurs twice and two types tie on the
\* maximum score 1 is classified as the earlier of the two types.
C6_Witness ==
  /\ ret # None
  /\ arg = <<"n","e","w"," ","b","a","l","a","n","c","e"," ","n","e","w"," ","b","a","l","a","n","c","e"," ","D","E","P","O","S","I","T"," ">>
  /\ CueCount("credit_card", arg) = 1
  /\ CueCount("bank", arg) = 1
  /\ Val(ret).type = "credit_card"

\* text contains a cue phrase of one of the four types, in lower case
HasCue(text) == \E k \in DOMAIN StatementTypes : CueCount(StatementTypes[k], text) > 0

\* C11: the confidence classify_statement returns is 0.0 or 1.0, computed
\* without a division by zero: 0.0 exactly when the text contains no cue phrase
\* of any type, 1.0 when it contains one; so the test confidence < 0.5 of
\* import_cmd, which sends a document to the unclassified area, holds exactly
\* when the text contains no cue phrase.
C11_ConfidenceZeroOrOne ==
  ret # None =>
    /\ Val(ret).den >= 1
    /\ IF HasCue(arg) THEN Val(ret).num = Val(ret).den ELSE Val(ret).num = 0
    /\ LowConfidence(Val(ret)) <=> ~HasCue(arg)

\* C11 happens: a text with two cues of one type and one cue of another has
\* confidence 2 / 2 and is not sent to the unclassified area.
C11_Witness ==
  /\ ret # None
  /\ arg = <<"e","s","c","r","o","w"," ","L","o","a","n"," ","N","u","m","b","e","r"," ","s","a","v","i","n","g","s"," ">>
  /\ CueCount("mortgage", arg) = 2
  /\ CueCount("bank", arg) = 1
  /\ Val(ret) = [ type |-> "mortgage", num |-> 2, den |-> 2 ]
  /\ ~LowConfidence(Val(ret))

\* The dates the text states: the matches of _DATE_RE that are dates
StatedDates(text) == Range(ParsedDates(DateFindIter(text, 1)))

\* C7: infer_statement_period returns (start, end) with start <= end: the two
\* dates of the first matched range when they parse and are in order; otherwise
\* the first and the last day of the calendar month of the latest date the text
\* states, of today when it states none, December included.
C7_PeriodOrdered ==
  ret # None =>
    LET m   == RangeSearch(arg)
        d1  == IF m = None THEN None ELSE _parse_date(Val(m).g1)
        d2  == IF m = None THEN None ELSE _parse_date(Val(m).g2)
        ref == IF StatedDates(arg) = {} THEN today
               ELSE CHOOSE d \in StatedDates(arg) : \A e \in StatedDates(arg) : DateLE(e, d)
    IN  /\ DateLE(Val(ret)[1], Val(ret)[2])
        /\ IF d1 # None /\ d2 # None /\ DateLE(Val(d1), Val(d2))
           THEN Val(ret) = << Val(d1), Val(d2) >>
           ELSE /\ Val(ret)[1] = Date(ref.y, ref.m, 1)
                /\ Val(ret)[2] = Date(ref.y, ref.m, DaysInMonth(ref.y, ref.m))

\* C7 happens: a range whose dates are out of order falls back to the month of
\* the latest date of the text, which is a December.
C7_Witness ==
  /\ ret # None
  /\ arg = <<"1","2","/","9","/","2","4"," ","-"," ","1","/","5","/","2","0","2","4">>
  /\ RangeSearch(arg) # None
  /\ Val(ret) = << Date(2024, 12, 1), Date(2024, 12, 31) >>

\* w is the val group of an amount token: one to three digits and groups of a
\* comma and three digits, or digits only, then a point and two digits
IsAmountValue(w) ==
  /\ Len(w) >= 4
  /\ w[Len(w) - 2] = "."
  /\ IsDigit(w[Len(w) - 1]) /\ IsDigit(w[Len(w)])
  /\ \/ \A k \in 1 .. (Len(w) - 3) : IsDigit(w[k])
     \/ \E n \in 1 .. 3 :
          /\ n <= Len(w) - 3
          /\ (Len(w) - 3 - n) % 4 = 0
          /\ \A k \in 1 .. (Len(w) - 3) :
               IF k > n /\ (k - n) % 4 = 1 THEN w[k] = "," ELSE IsDigit(w[k])

\* s[i .. e - 1] is an amount token: an optional "-", an optional "$", a value
IsAmountToken(s, i, e) ==
  \E sg \in 0 .. 1, dl \in 0 .. 1 :
    /\ i + sg + dl <= e - 1 /\ e - 1 <= Len(s)
    /\ sg = 1 => s[i] = "-"
    /\ dl = 1 => s[i + sg] = "$"
    /\ IsAmountValue(SubSeq(s, i + sg + dl, e - 1))

\* The amount tokens of s: <<i, e>> for the token s[i .. e - 1], which ends
\* with a point and two digits
AmountTokens(s) ==
  { ie \in (1 .. Len(s)) \X { e \in 4 .. (Len(s) + 1) : s[e - 3] = "." } :
      IsAmountToken(s, ie[1], ie[2]) }

\* The number the digits of w write
RECURSIVE DigitsNumber(_)
DigitsNumber(w) ==
  IF w = << >> THEN 0
  ELSE IF IsDigit(w[Len(w)])
       THEN 10 * DigitsNumber(SubSeq(w, 1, Len(w) - 1)) + DigitVal(w[Len(w)])
       ELSE DigitsNumber(SubSeq(w, 1, Len(w) - 1))

\* C10, stated for the text s, whose amount tokens are tokens, and the value r
\* returned for it
AmountAsStated(s, r, tokens) ==
  IF tokens = {} THEN r = None
  ELSE LET first == CHOOSE ie \in tokens : \A o \in tokens : ie[1] <= o[1]
           neg   == \/ s[first[1]] = "-"
                    \/ \E k \in DOMAIN s : s[k] = "-" /\ \A j \in (k + 1) .. Len(s) : s[j] = " "
           mag   == DigitsNumber(SubSeq(s, first[1], first[2] - 1))
       IN  r = Some(IF neg THEN -mag ELSE mag)

\* C10: _parse_amount, in integer cents, returns for the first amount token of
\* its input the token's digits as magnitude (thousands separators and a
\* leading "$" ignored), negative exactly when the token has a leading "-" or
\* the trimmed input ends with "-", also when both hold; it returns no amount
\* when the input has no token with two decimal digits.  "-$1,234.56" gives
\* -1234.56, "1234.56-" gives -1234.56, "$45.00" gives 45.00.
C10_AmountSign ==
  ret # None =>
    /\ AmountAsStated(arg, Val(ret), AmountTokens(arg))
    /\ arg = <<"-","$","1",",","2","3","4",".","5","6">> => Val(ret) = Some(-123456)
    /\ arg = <<"1","2","3","4",".","5","6","-">> => Val(ret) = Some(-123456)
    /\ arg = <<"$","4","5",".","0","0">> => Val(ret) = Some(4500)

\* C10 happens: an amount with both markers, a leading "-" and a trailing "-",
\* is negative.
C10_Witness ==
  /\ ret # None
  /\ arg = <<"-","$","4","5",".","0","0","-">>
  /\ Val(ret) = Some(-4500)

=============================================================================
